---- MODULE Spec2Model ----
(***************************************************************************)
(* The question-answering pipeline of utils/chatbot.py: ask_question loads *)
(* the persisted Chroma collection, retrieves the top documents for the    *)
(* query (Chroma calls GeminiEmbeddingFunction on the query), formats the  *)
(* RAG prompt and asks the Gemini model for an answer.                     *)
(*                                                                         *)
(* Text is modelled as a sequence of one-character strings, so that the    *)
(* replace/format/join operations of the code are computed character by    *)
(* character.  Several ask_question calls (one per UI session thread) run  *)
(* in one process and interleave at the granularity of the statements that *)
(* touch process-wide state: os.getenv, genai.configure and the request    *)
(* that uses the configured client.                                        *)
(***************************************************************************)
EXTENDS Integers, Sequences, FiniteSets, TLC

VARIABLES
    env,         \* value of GEMINI_API_KEY in the process environment
    configured,  \* api key held by the process-wide genai configuration
    chroma,      \* the persisted store at ./chroma (never written by this code)
    pc,          \* pc[c]: position of call c inside ask_question
    args,        \* args[c]: the caller's arguments (query, current_location)
    frame,       \* frame[c]: local variables of the call
    outcome,     \* outcome[c]: value returned or exception raised to the caller
    log,         \* log[c]: what the call did (steps, getenv reads, requests)
    envChanges   \* number of changes made to the environment variable so far

vars == <<env, configured, chroma, pc, args, frame, outcome, log, envChanges>>

----------------------------------------------------------------------------
\* Bounds of the model.

\* Largest number of documents held by the collection.
MaxDocs == 6

\* Number of times the environment variable is changed during a run.
MaxEnvChanges == 1

\* Longest passage block drawn for the prompt formatter on its own.
MaxLen == 3

\* The concurrent ask_question calls (one per UI session).
Calls == {"c1", "c2"}

----------------------------------------------------------------------------
\* Text helpers.

SQ == "'"
DQ == "\""
NL == "\n"
SP == " "

Min(a, b) == IF a <= b THEN a ELSE b

\* Python's None, as a value of an environment variable / api key.
None == "<None>"

\* An optional string argument (current_location=None by default).
NoneStr == [some |-> FALSE, text |-> <<>>]
Some(t) == [some |-> TRUE, text |-> t]

\* str(x) as str.format renders a value: None is rendered as the text None.
Str(x) == IF x.some THEN x.text ELSE <<"N", "o", "n", "e">>

\* s.replace(old, new) for a one-character old and a replacement text new.
RECURSIVE Replace(_, _, _)
Replace(s, old, new) ==
    IF s = <<>> THEN <<>>
    ELSE (IF Head(s) = old THEN new ELSE <<Head(s)>>) \o Replace(Tail(s), old, new)

\* "".join(texts)
RECURSIVE Join(_)
Join(texts) == IF texts = <<>> THEN <<>> ELSE Head(texts) \o Join(Tail(texts))

\* sub occurs in s as a contiguous block.
Contains(s, sub) ==
    \E i \in 0..(Len(s) - Len(sub)) : SubSeq(s, i + 1, i + Len(sub)) = sub

\* Number of occurrences of character ch in s.
RECURSIVE Count(_, _)
Count(s, ch) ==
    IF s = <<>> THEN 0 ELSE (IF Head(s) = ch THEN 1 ELSE 0) + Count(Tail(s), ch)

\* s.strip(): leading and trailing spaces removed.
RECURSIVE Strip(_)
Strip(s) ==
    IF s = <<>> THEN <<>>
    ELSE IF Head(s) = SP THEN Strip(Tail(s))
    ELSE IF s[Len(s)] = SP THEN Strip(SubSeq(s, 1, Len(s) - 1))
    ELSE s

----------------------------------------------------------------------------
\* The prompt template (utils/constants.py, RAG_PROMPT_CONSTANT): fixed text
\* with the three named fields that make_rag_prompt fills in.

Lit(t) == [field |-> "", text |-> t]
Field(f) == [field |-> f, text |-> <<>>]

RAG_PROMPT_CONSTANT ==
    << Lit(<<"Q", ":">>), Field("query"),
       Lit(<<"P", ":">>), Field("relevant_passage"),
       Lit(<<"L", ":">>), Field("current_location"),
       Lit(<<".">>) >>

\* template.format(**kw): every field is replaced by its value, verbatim;
\* the values are not scanned for fields again.
RECURSIVE Format(_, _)
Format(template, kw) ==
    IF template = <<>> THEN <<>>
    ELSE LET item == Head(template)
         IN  (IF item.field = "" THEN item.text ELSE kw[item.field])
             \o Format(Tail(template), kw)

\* Position (0-based offset) at which field f starts in the formatted text.
RECURSIVE FieldOffset(_, _, _)
FieldOffset(template, kw, f) ==
    IF template = <<>> THEN 0
    ELSE LET item == Head(template)
         IN  IF item.field = f THEN 0
             ELSE Len(IF item.field = "" THEN item.text ELSE kw[item.field])
                  + FieldOffset(Tail(template), kw, f)

----------------------------------------------------------------------------
\* make_rag_prompt

\* Variant: the double quote is not removed.
escaped_single_only(relevant_passage) ==
    Replace(Replace(relevant_passage, SQ, <<>>), NL, <<SP>>)

\* relevant_passage.replace("'", "").replace('"', "").replace("\n", " ")
escaped(relevant_passage) ==
    Replace(Replace(Replace(relevant_passage, SQ, <<>>), DQ, <<>>), NL, <<SP>>)

PromptFields(query, relevant_passage, current_location) ==
    [query |-> query,
     relevant_passage |-> escaped(relevant_passage),
     current_location |-> Str(current_location)]

\* Variant: the query and the passage block are passed in each other's place.
make_rag_prompt_swapped(query, relevant_passage, current_location) ==
    Format(RAG_PROMPT_CONSTANT,
           PromptFields(relevant_passage, query, current_location))

make_rag_prompt(query, relevant_passage, current_location) ==
    Format(RAG_PROMPT_CONSTANT,
           PromptFields(query, relevant_passage, current_location))

----------------------------------------------------------------------------
\* The environment and the provider.

\* Values GEMINI_API_KEY can have: unset, empty, a valid key, a revoked key.
EnvValues == {None, "", "k1", "bad"}

\* Keys the provider accepts.
ValidKeys == {"k1"}

\* The provider serves a request when it is up and the key sent is valid.
Accepted(up, key) == up /\ key \in ValidKeys

\* os.getenv("GEMINI_API_KEY") in environment e.
os_getenv(e) == e

\* Variant: `gemini_api_key is None`, which lets the empty string through.
NotKey_is_none(gemini_api_key) == gemini_api_key = None

\* `not gemini_api_key`: None and the empty string are falsy.
NotKey(gemini_api_key) == gemini_api_key = None \/ gemini_api_key = ""

\* Exceptions that reach the caller, named by where they are raised.
MissingCredential == "ValueError: Gemini API Key not provided"
CollectionNotFound == "chromadb: collection does not exist"
StoreUnreadable == "chromadb: store unreadable"
EmbedFailed == "genai: embed_content failed"
GenerateFailed == "genai: generate_content failed"

----------------------------------------------------------------------------
\* The persisted store and its collection.

Path == "./chroma"
Name == "chatbot_rag_collection"

Letters == <<"a", "b", "c", "d", "e", "f", "g", "h">>
Marks == << <<SQ>>, <<DQ, "x">>, <<NL>>, <<>> >>

\* Text of the i-th stored document; quotes and newlines occur in them.
DocText(i) == <<Letters[((i - 1) % 8) + 1]>> \o Marks[((i - 1) % 4) + 1]

Docs(n) == [i \in 1..n |-> DocText(i)]

\* The states the store can be in: unreadable, readable without the
\* collection, or holding the collection with 0..MaxDocs documents.
Stores ==
    {[readable |-> FALSE, name |-> Name, documents |-> <<>>],
     [readable |-> TRUE, name |-> "other_collection", documents |-> <<>>]}
    \cup {[readable |-> TRUE, name |-> Name, documents |-> Docs(n)] : n \in 0..MaxDocs}

NoHandle == [open |-> FALSE, name |-> "", documents |-> <<>>]

\* chromadb.PersistentClient(path).get_collection(name, embedding_function)
load_chroma_collection(path, name) ==
    IF ~chroma.readable THEN [ok |-> FALSE, error |-> StoreUnreadable, value |-> NoHandle]
    ELSE IF chroma.name # name
         THEN [ok |-> FALSE, error |-> CollectionNotFound, value |-> NoHandle]
         ELSE [ok |-> TRUE, error |-> "",
               value |-> [open |-> TRUE, name |-> name, documents |-> chroma.documents]]

\* Relevance orders the store may report for n documents (the ranking is
\* the store's own): as stored, or reversed.
Rankings(n) == {[i \in 1..n |-> i], [i \in 1..n |-> n + 1 - i]}

\* The documents of the collection, most relevant first, under ranking rank.
Ranked(documents, rank) == [i \in 1..Len(documents) |-> documents[rank[i]]]

\* Variant: the query is stripped before it is handed to the store.
query_request_stripped(query, n_results) ==
    [query_texts |-> <<Strip(query)>>, n_results |-> n_results]

\* Arguments get_relevant_passage hands to db.query.
query_request(query, n_results) ==
    [query_texts |-> <<query>>, n_results |-> n_results]

\* db.query(query_texts, n_results): per query text, the n_results most
\* relevant documents, or all of them when the collection holds fewer.
db_query(db, request, rank) ==
    [documents |->
        [q \in 1..Len(request.query_texts) |->
            SubSeq(Ranked(db.documents, rank), 1,
                   Min(request.n_results, Len(db.documents)))]]

\* Variant: one result fewer than requested is asked for.
get_relevant_passage_off_by_one(query, db, n_results, rank) ==
    db_query(db, query_request(query, n_results - 1), rank).documents[1]

\* db.query(query_texts=[query], n_results=n_results)["documents"][0]
get_relevant_passage(query, db, n_results, rank) ==
    db_query(db, query_request(query, n_results), rank).documents[1]

\* n_results=5 at the call site in generate_answer.
n_results == 5

----------------------------------------------------------------------------
\* The generation model.

\* What the model answers for a prompt: it may echo the prompt or give a
\* fixed answer.
ModelModes == {"echo", "fixed"}
Respond(mode, prompt) ==
    [text |-> IF mode = "echo" THEN prompt ELSE <<"o", "k">>]

\* Variant: the text of the answer is not returned.
answer_text_dropped(answer) == <<>>

\* return answer.text
answer_text(answer) == answer.text

----------------------------------------------------------------------------
\* Inputs of ask_question.

\* The (query, current_location) pairs a session may pass: an empty query,
\* a whitespace-only query with a location hint, a query holding a quote.
Inputs ==
    {[query |-> <<>>, current_location |-> NoneStr],
     [query |-> <<SP>>, current_location |-> Some(<<"M">>)],
     [query |-> <<"w", SQ>>, current_location |-> NoneStr]}

----------------------------------------------------------------------------
\* State of one call.

NoFrame ==
    [db |-> NoHandle, gemini_api_key |-> None, relevant_text |-> <<>>,
     prompt |-> <<>>, answer |-> [text |-> <<>>]]

NoOutcome == [kind |-> "none", value |-> <<>>, error |-> ""]

NoLog == [steps |-> <<>>, getenvs |-> <<>>, requests |-> <<>>, queries |-> <<>>]

\* return: the value leaves generate_answer and ask_question unchanged.
Returns(c, value) ==
    /\ pc' = [pc EXCEPT ![c] = "returned"]
    /\ outcome' = [outcome EXCEPT ![c] = [kind |-> "return", value |-> value, error |-> ""]]

\* Variant: the error is caught and a sentinel string is returned instead.
Raises_sentinel(c, error) ==
    /\ pc' = [pc EXCEPT ![c] = "returned"]
    /\ outcome' = [outcome EXCEPT ![c] =
                      [kind |-> "return", value |-> <<"E", "r", "r">>, error |-> ""]]

\* raise: nothing catches the exception, so it leaves ask_question.
Raises(c, error) ==
    /\ pc' = [pc EXCEPT ![c] = "raised"]
    /\ outcome' = [outcome EXCEPT ![c] = [kind |-> "raise", value |-> <<>>, error |-> error]]

Step(c, name) == [log[c] EXCEPT !.steps = Append(@, name)]

Init ==
    /\ env \in EnvValues
    /\ configured = None
    /\ chroma \in Stores
    /\ pc = [c \in Calls |-> "idle"]
    /\ args = [c \in Calls |-> [query |-> <<>>, current_location |-> NoneStr]]
    /\ frame = [c \in Calls |-> NoFrame]
    /\ outcome = [c \in Calls |-> NoOutcome]
    /\ log = [c \in Calls |-> NoLog]
    /\ envChanges = 0

----------------------------------------------------------------------------
\* The steps of ask_question.

\* A session calls ask_question(query, current_location).
Ask(c) ==
    /\ pc[c] = "idle"
    /\ \E input \in Inputs : args' = [args EXCEPT ![c] = input]
    /\ pc' = [pc EXCEPT ![c] = "load"]
    /\ UNCHANGED <<env, configured, chroma, frame, outcome, log, envChanges>>

\* Variant: the credential is checked before the collection is opened.
Load_checks_key(c) ==
    /\ pc[c] = "load"
    /\ LET r == IF NotKey(os_getenv(env))
                THEN [ok |-> FALSE, error |-> MissingCredential, value |-> NoHandle]
                ELSE load_chroma_collection(Path, Name)
       IN  /\ log' = [log EXCEPT ![c] = Step(c, "load_chroma_collection")]
           /\ IF r.ok
              THEN /\ frame' = [frame EXCEPT ![c].db = r.value]
                   /\ pc' = [pc EXCEPT ![c] = "embed_getenv"]
                   /\ UNCHANGED outcome
              ELSE /\ Raises(c, r.error)
                   /\ UNCHANGED frame
    /\ UNCHANGED <<env, configured, chroma, args, envChanges>>

\* db = load_chroma_collection(path=r"./chroma", name="chatbot_rag_collection")
Load(c) ==
    /\ pc[c] = "load"
    /\ LET r == load_chroma_collection(Path, Name)
       IN  /\ log' = [log EXCEPT ![c] = Step(c, "load_chroma_collection")]
           /\ IF r.ok
              THEN /\ frame' = [frame EXCEPT ![c].db = r.value]
                   /\ pc' = [pc EXCEPT ![c] = "embed_getenv"]
                   /\ UNCHANGED outcome
              ELSE /\ Raises(c, r.error)
                   /\ UNCHANGED frame
    /\ UNCHANGED <<env, configured, chroma, args, envChanges>>

\* get_relevant_passage -> db.query -> GeminiEmbeddingFunction.__call__:
\* gemini_api_key = os.getenv(...); if not gemini_api_key: raise ValueError
EmbedGetenv(c) ==
    /\ pc[c] = "embed_getenv"
    /\ LET key == os_getenv(env)
       IN  /\ frame' = [frame EXCEPT ![c].gemini_api_key = key]
           /\ log' = [log EXCEPT ![c] =
                         [Step(c, "get_relevant_passage") EXCEPT
                             !.getenvs = Append(@, [at |-> "embed", key |-> key])]]
           /\ IF NotKey(key)
              THEN Raises(c, MissingCredential)
              ELSE /\ pc' = [pc EXCEPT ![c] = "embed_configure"]
                   /\ UNCHANGED outcome
    /\ UNCHANGED <<env, configured, chroma, args, envChanges>>

\* genai.configure(api_key=gemini_api_key): sets the process-wide key.
EmbedConfigure(c) ==
    /\ pc[c] = "embed_configure"
    /\ configured' = frame[c].gemini_api_key
    /\ pc' = [pc EXCEPT ![c] = "embed_request"]
    /\ UNCHANGED <<env, chroma, args, frame, outcome, log, envChanges>>

\* Variant: a refused embedding request is sent again.
EmbedRequest_retry(c) ==
    /\ pc[c] = "embed_request"
    /\ \E up \in BOOLEAN :
           /\ log' = [log EXCEPT ![c].requests =
                         Append(@, [kind |-> "embed",
                                    content |-> query_request(args[c].query, n_results).query_texts,
                                    key_read |-> frame[c].gemini_api_key,
                                    key_used |-> configured,
                                    ok |-> Accepted(up, configured),
                                    response |-> <<>>])]
           /\ pc' = [pc EXCEPT ![c] = IF Accepted(up, configured)
                                      THEN "query" ELSE "embed_request"]
    /\ UNCHANGED <<env, configured, chroma, args, frame, outcome, envChanges>>

\* genai.embed_content(model, content=input, ...)["embedding"]: one request
\* to the embedding service, made with the process-wide configuration.
EmbedRequest(c) ==
    /\ pc[c] = "embed_request"
    /\ \E up \in BOOLEAN :
           /\ log' = [log EXCEPT ![c].requests =
                         Append(@, [kind |-> "embed",
                                    content |-> query_request(args[c].query, n_results).query_texts,
                                    key_read |-> frame[c].gemini_api_key,
                                    key_used |-> configured,
                                    ok |-> Accepted(up, configured),
                                    response |-> <<>>])]
           /\ IF Accepted(up, configured)
              THEN /\ pc' = [pc EXCEPT ![c] = "query"]
                   /\ UNCHANGED outcome
              ELSE Raises(c, EmbedFailed)
    /\ UNCHANGED <<env, configured, chroma, args, frame, envChanges>>

\* relevant_text = get_relevant_passage(query, db, n_results=5): the store
\* ranks the documents and returns the first of them.
Query(c) ==
    /\ pc[c] = "query"
    /\ \E rank \in Rankings(Len(frame[c].db.documents)) :
           /\ frame' = [frame EXCEPT ![c].relevant_text =
                           get_relevant_passage(args[c].query, frame[c].db, n_results, rank)]
           /\ log' = [log EXCEPT ![c].queries =
                         Append(@, [request |-> query_request(args[c].query, n_results),
                                    ranked |-> Ranked(frame[c].db.documents, rank)])]
    /\ pc' = [pc EXCEPT ![c] = "format"]
    /\ UNCHANGED <<env, configured, chroma, args, outcome, envChanges>>

\* prompt = make_rag_prompt(query, "".join(relevant_text), current_location)
FormatPrompt(c) ==
    /\ pc[c] = "format"
    /\ frame' = [frame EXCEPT ![c].prompt =
                    make_rag_prompt(args[c].query, Join(frame[c].relevant_text),
                                    args[c].current_location)]
    /\ log' = [log EXCEPT ![c] = Step(c, "make_rag_prompt")]
    /\ pc' = [pc EXCEPT ![c] = "gen_getenv"]
    /\ UNCHANGED <<env, configured, chroma, args, outcome, envChanges>>

\* __generate_answer: gemini_api_key = os.getenv(...); if not ...: raise
GenGetenv(c) ==
    /\ pc[c] = "gen_getenv"
    /\ LET key == os_getenv(env)
       IN  /\ frame' = [frame EXCEPT ![c].gemini_api_key = key]
           /\ log' = [log EXCEPT ![c] =
                         [Step(c, "__generate_answer") EXCEPT
                             !.getenvs = Append(@, [at |-> "generate", key |-> key])]]
           /\ IF NotKey(key)
              THEN Raises(c, MissingCredential)
              ELSE /\ pc' = [pc EXCEPT ![c] = "gen_configure"]
                   /\ UNCHANGED outcome
    /\ UNCHANGED <<env, configured, chroma, args, envChanges>>

\* genai.configure(api_key=gemini_api_key)
GenConfigure(c) ==
    /\ pc[c] = "gen_configure"
    /\ configured' = frame[c].gemini_api_key
    /\ pc' = [pc EXCEPT ![c] = "gen_request"]
    /\ UNCHANGED <<env, chroma, args, frame, outcome, log, envChanges>>

\* answer = model.generate_content(prompt); return answer.text, which
\* generate_answer and ask_question return to the caller.
GenRequest(c) ==
    /\ pc[c] = "gen_request"
    /\ \E up \in BOOLEAN, mode \in ModelModes :
           /\ log' = [log EXCEPT ![c].requests =
                         Append(@, [kind |-> "generate",
                                    content |-> <<frame[c].prompt>>,
                                    key_read |-> frame[c].gemini_api_key,
                                    key_used |-> configured,
                                    ok |-> Accepted(up, configured),
                                    mode |-> mode,
                                    response |-> IF Accepted(up, configured)
                                                 THEN Respond(mode, frame[c].prompt).text
                                                 ELSE <<>>])]
           /\ IF Accepted(up, configured)
              THEN /\ frame' =[frame EXCEPT ![c].answer = Respond(mode, frame[c].prompt)]
                   /\ Returns(c, answer_text(Respond(mode, frame[c].prompt)))
              ELSE /\ Raises(c, GenerateFailed)
                   /\ UNCHANGED frame
    /\ UNCHANGED <<env, configured, chroma, args, envChanges>>

\* The environment variable is given another value while the process runs.
Setenv ==
    /\ envChanges < MaxEnvChanges
    /\ \E k \in EnvValues \ {env} : env' = k
    /\ envChanges' = envChanges + 1
    /\ UNCHANGED <<configured, chroma, pc, args, frame, outcome, log>>

Next ==
    \/ \E c \in Calls : Ask(c)
    \/ \E c \in Calls : Load(c)
    \/ \E c \in Calls : EmbedGetenv(c)
    \/ \E c \in Calls : EmbedConfigure(c)
    \/ \E c \in Calls : EmbedRequest(c)
    \/ \E c \in Calls : Query(c)
    \/ \E c \in Calls : FormatPrompt(c)
    \/ \E c \in Calls : GenGetenv(c)
    \/ \E c \in Calls : GenConfigure(c)
    \/ \E c \in Calls : GenRequest(c)
    \/ Setenv

Spec == Init /\ [][Next]_vars

----------------------------------------------------------------------------
\* The prompt formatter on its own: a call that has retrieved one arbitrary
\* passage (any text over Alphabet up to MaxLen characters) formats it.

Alphabet == {SQ, DQ, NL, SP, "a"}

Texts(n) == UNION {[1..k -> Alphabet] : k \in 0..n}

PromptCall == CHOOSE c \in Calls : TRUE

InitPrompt ==
    /\ env = "k1"
    /\ configured = "k1"
    /\ envChanges = 0
    /\ \E p \in Texts(MaxLen), input \in Inputs :
         LET q == input.query
             loc == input.current_location
             store == [readable |-> TRUE, name |-> Name, documents |-> <<p>>]
             handle == [open |-> TRUE, name |-> Name, documents |-> <<p>>]
         IN  /\ chroma = store
             /\ pc = [c \in Calls |-> IF c = PromptCall THEN "format" ELSE "idle"]
             /\ args = [c \in Calls |->
                          IF c = PromptCall
                          THEN [query |-> q, current_location |-> loc]
                          ELSE [query |-> <<>>, current_location |-> NoneStr]]
             /\ frame = [c \in Calls |->
                           IF c = PromptCall
                           THEN [NoFrame EXCEPT !.db = handle,
                                                !.gemini_api_key = "k1",
                                                !.relevant_text = <<p>>]
                           ELSE NoFrame]
             /\ outcome = [c \in Calls |-> NoOutcome]
             /\ log = [c \in Calls |->
                         IF c = PromptCall
                         THEN [steps |-> <<"load_chroma_collection", "get_relevant_passage">>,
                               getenvs |-> <<[at |-> "embed", key |-> "k1"]>>,
                               requests |-> <<[kind |-> "embed", content |-> <<q>>,
                                               key_read |-> "k1", key_used |-> "k1",
                                               ok |-> TRUE, response |-> <<>>]>>,
                               queries |-> <<[request |-> query_request(q, n_results),
                                              ranked |-> <<p>>]>>]
                         ELSE NoLog]

NextPrompt == FormatPrompt(PromptCall)

SpecPrompt == InitPrompt /\ [][NextPrompt]_vars

----------------------------------------------------------------------------
\* Vocabulary of the properties.  Absence of the credential, concatenation
\* and sanitising are defined here a second time, character by character,
\* independently of NotKey, Join and escaped above.

\* The credential is absent: the variable is unset or holds the empty string.
Absent(k) == k \in {None, ""}

Last(s) == s[Len(s)]

IsPrefix(s, t) == Len(s) <= Len(t) /\ SubSeq(t, 1, Len(s)) = s

\* The order of the steps of one call.
StepsOrder ==
    <<"load_chroma_collection", "get_relevant_passage",
      "make_rag_prompt", "__generate_answer">>

\* Kinds of the network requests call c has issued, in order.
Kinds(c) == [i \in 1..Len(log[c].requests) |-> log[c].requests[i].kind]

\* Requests of one kind issued by call c.
RequestsOf(c, kind) == SelectSeq(log[c].requests, LAMBDA r : r.kind = kind)

\* Call c has formatted its prompt.
Formatted(c) == Len(log[c].steps) >= 3

\* The texts put one after the other, nothing in between.
RECURSIVE ConcatUpTo(_, _)
ConcatUpTo(texts, n) == IF n = 0 THEN <<>> ELSE ConcatUpTo(texts, n - 1) \o texts[n]
Concat(texts) == ConcatUpTo(texts, Len(texts))

\* Character by character: quotes dropped, a newline becomes one space.
RECURSIVE Clean(_)
Clean(s) ==
    IF s = <<>> THEN <<>>
    ELSE (IF Head(s) \in {SQ, DQ} THEN <<>>
          ELSE IF Head(s) = NL THEN <<SP>> ELSE <<Head(s)>>)
         \o Clean(Tail(s))

\* What call c knows of the fields of its prompt.
FieldsOf(c) ==
    [query |-> args[c].query,
     relevant_passage |-> Clean(Concat(frame[c].relevant_text)),
     current_location |-> Str(args[c].current_location)]

\* The part of a formatted prompt that stands where field f of the template
\* was, the other fields having the values kw gives them.
FieldSegment(prompt, f, kw) ==
    LET off == FieldOffset(RAG_PROMPT_CONSTANT, kw, f)
        others == Len(Format(RAG_PROMPT_CONSTANT, [kw EXCEPT ![f] = <<>>]))
    IN  SubSeq(prompt, off + 1, off + (Len(prompt) - others))

LoadErrors == {StoreUnreadable, CollectionNotFound}

StoreBroken == ~chroma.readable \/ chroma.name # Name

----------------------------------------------------------------------------
\* C1: a step (embedding or generation) that finds GEMINI_API_KEY unset or
\* empty raises the missing-credential error and issues no request: it is
\* the last thing the call does, the call has raised that error, no request
\* of that step's kind exists, and no request at all was issued by a step
\* whose credential read was absent.
C1_MissingCredentialBeforeNetwork ==
    \A c \in Calls :
        /\ \A i \in 1..Len(log[c].getenvs) :
              Absent(log[c].getenvs[i].key) =>
                  /\ i = Len(log[c].getenvs)
                  /\ pc[c] = "raised"
                  /\ outcome[c] = [kind |-> "raise", value |-> <<>>,
                                   error |-> MissingCredential]
                  /\ RequestsOf(c, log[c].getenvs[i].at) = <<>>
        /\ \A i \in 1..Len(log[c].requests) : ~Absent(log[c].requests[i].key_read)

\* One call stopped at the embedding step and another at the generation
\* step (after its embedding request), both on an absent credential.
C1_Witness ==
    \E c, d \in Calls :
        /\ pc[c] = "raised" /\ outcome[c].error = MissingCredential
        /\ Len(log[c].getenvs) = 1 /\ Absent(log[c].getenvs[1].key)
        /\ pc[d] = "raised" /\ outcome[d].error = MissingCredential
        /\ Len(log[d].getenvs) = 2 /\ Absent(log[d].getenvs[2].key)
        /\ Kinds(d) = <<"embed">>

\* C2: ask_question is all-or-nothing.  A call that raised did so at the
\* step that failed, ran no later step (nothing of a later step exists in
\* its frame or log), carries the underlying error and no answer; a call
\* returns a value only after all four steps ran and both requests were
\* served, and the value is the generated text.
C2_AllOrNothing ==
    \A c \in Calls :
        /\ pc[c] \notin {"raised", "returned"} => outcome[c] = NoOutcome
        /\ pc[c] = "raised" =>
              /\ outcome[c].kind = "raise" /\ outcome[c].value = <<>>
              /\ frame[c].answer = [text |-> <<>>]
              /\ \/ /\ outcome[c].error \in LoadErrors
                    /\ log[c].steps = SubSeq(StepsOrder, 1, 1)
                    /\ frame[c] = NoFrame
                    /\ log[c].getenvs = <<>> /\ log[c].requests = <<>>
                 \/ /\ outcome[c].error = MissingCredential
                    /\ Absent(Last(log[c].getenvs).key)
                    /\ \/ /\ log[c].steps = SubSeq(StepsOrder, 1, 2)
                          /\ log[c].requests = <<>> /\ log[c].queries = <<>>
                          /\ frame[c].relevant_text = <<>> /\ frame[c].prompt = <<>>
                       \/ /\ log[c].steps = StepsOrder
                          /\ Kinds(c) = <<"embed">>
                 \/ /\ outcome[c].error = EmbedFailed
                    /\ log[c].steps = SubSeq(StepsOrder, 1, 2)
                    /\ Kinds(c) = <<"embed">> /\ ~Last(log[c].requests).ok
                    /\ log[c].queries = <<>>
                    /\ frame[c].relevant_text = <<>> /\ frame[c].prompt = <<>>
                 \/ /\ outcome[c].error = GenerateFailed
                    /\ log[c].steps = StepsOrder
                    /\ Kinds(c) = <<"embed", "generate">>
                    /\ ~Last(log[c].requests).ok
        /\ pc[c] = "returned" =>
              /\ outcome[c].kind = "return" /\ outcome[c].error = ""
              /\ log[c].steps = StepsOrder
              /\ Kinds(c) = <<"embed", "generate">>
              /\ \A i \in 1..2 : log[c].requests[i].ok
              /\ outcome[c].value = Last(log[c].requests).response

\* One call failed in retrieval and another in generation; neither has an
\* answer.
C2_Witness ==
    \E c, d \in Calls :
        /\ pc[c] = "raised" /\ outcome[c].error = EmbedFailed
        /\ pc[d] = "raised" /\ outcome[d].error = GenerateFailed
        /\ frame[d].prompt # <<>>

C4_EchoWiring ==
    \A c \in Calls :
        pc[c] = "returned" =>
            LET gen == Last(log[c].requests)
                ranked == log[c].queries[1].ranked
                retrieved == SubSeq(ranked, 1, Min(5, Len(ranked)))
                passages == Clean(Concat(retrieved))
                value == outcome[c].value
                kw == [query |-> args[c].query,
                       relevant_passage |-> passages,
                       current_location |-> Str(args[c].current_location)]
            IN  /\ value = gen.response
                /\ gen.mode = "echo" =>
                      /\ value = gen.content[1]
                      /\ Contains(value, args[c].query)
                      /\ Contains(value, passages)
                      /\ FieldSegment(value, "query", kw) = args[c].query
                      /\ FieldSegment(value, "relevant_passage", kw) = passages

\* An echoed answer built from at least two documents ranked in reverse,
\* for a query that itself holds a quote.
C4_Witness ==
    \E c \in Calls :
        /\ pc[c] = "returned"
        /\ Last(log[c].requests).mode = "echo"
        /\ Len(frame[c].relevant_text) >= 2
        /\ log[c].queries[1].ranked # frame[c].db.documents
        /\ args[c].query = <<"w", SQ>>

\* C5: the passage segment of the prompt holds no single quote, no double
\* quote and no newline; it is the passage block with every quote removed
\* and every newline replaced by exactly one space, the other characters
\* kept in order.
C5_PassageSanitised ==
    \A c \in Calls :
        Formatted(c) =>
            LET block == Concat(frame[c].relevant_text)
                seg == FieldSegment(frame[c].prompt, "relevant_passage", FieldsOf(c))
            IN  /\ \A i \in 1..Len(seg) : seg[i] \notin {SQ, DQ, NL}
                /\ seg = Clean(block)
                /\ Len(seg) = Len(block) - Count(block, SQ) - Count(block, DQ)
                /\ Count(seg, SP) = Count(block, SP) + Count(block, NL)

\* A formatted passage that held a single quote, a double quote and a
\* newline.
C5_Witness ==
    \E c \in Calls :
        /\ Formatted(c)
        /\ LET block == Concat(frame[c].relevant_text)
           IN  Count(block, SQ) = 1 /\ Count(block, DQ) = 1 /\ Count(block, NL) = 1

\* C6: ask_question asks the store for 5 results; from a collection of n
\* documents the call gets exactly min(5, n) texts, in the order the store
\* ranked them, and retrieval raises nothing when n < 5.
C6_TopK ==
    \A c \in Calls :
        /\ \A i \in 1..Len(log[c].queries) :
              LET q == log[c].queries[i]
                  n == Len(frame[c].db.documents)
                  got == frame[c].relevant_text
              IN  /\ q.request.n_results = 5
                  /\ Len(got) = (IF n < 5 THEN n ELSE 5)
                  /\ \A j \in 1..Len(got) : got[j] = q.ranked[j]
        /\ (pc[c] = "raised" /\ Kinds(c) # <<>> /\ log[c].requests[1].ok) =>
              /\ Len(log[c].queries) = 1
              /\ outcome[c].error \in {MissingCredential, GenerateFailed}

\* A collection of more than five documents, ranked in reverse: five are
\* returned.
C6_Witness ==
    \E c \in Calls :
        /\ Len(log[c].queries) = 1
        /\ Len(frame[c].db.documents) > 5
        /\ Len(frame[c].relevant_text) = 5
        /\ frame[c].relevant_text[1] = Last(frame[c].db.documents)

\* C7: the steps of a call occur in the order load, retrieve, format,
\* generate, each at most once; the embedding request (at most one) is made
\* within retrieve and before the store is queried, the generation request
\* (at most one) within generate; a call that returned ran each step once
\* on a handle it opened itself.
C7_LinearOnce ==
    \A c \in Calls :
        /\ IsPrefix(log[c].steps, StepsOrder)
        /\ IsPrefix(Kinds(c), <<"embed", "generate">>)
        /\ Len(log[c].queries) <= 1
        /\ Len(Kinds(c)) >= 1 => Len(log[c].steps) >= 2
        /\ Len(Kinds(c)) = 2 => Len(log[c].steps) = 4
        /\ Len(log[c].queries) = 1 => (Kinds(c) # <<>> /\ log[c].requests[1].ok)
        /\ Formatted(c) => Len(log[c].queries) = 1
        /\ frame[c].db.open => Len(log[c].steps) >= 1
        /\ pc[c] = "returned" =>
              /\ log[c].steps = StepsOrder
              /\ Kinds(c) = <<"embed", "generate">>
              /\ Len(log[c].queries) = 1
              /\ frame[c].db.open

\* Both calls returned, each after its own four steps.
C7_Witness ==
    \A c \in Calls : pc[c] = "returned" /\ log[c].steps = StepsOrder

C9_QueryPassedThrough ==
    \A c \in Calls :
        /\ \A i \in 1..Len(log[c].queries) :
              log[c].queries[i].request.query_texts = <<args[c].query>>
        /\ \A i \in 1..Len(log[c].requests) :
              log[c].requests[i].kind = "embed" =>
                  log[c].requests[i].content = <<args[c].query>>
        /\ Formatted(c) =>
              FieldSegment(frame[c].prompt, "query", FieldsOf(c)) = args[c].query
        /\ pc[c] = "raised" =>
              \/ outcome[c].error \in LoadErrors /\ StoreBroken
              \/ outcome[c].error = MissingCredential
                     /\ Absent(Last(log[c].getenvs).key)
              \/ outcome[c].error \in {EmbedFailed, GenerateFailed}
                     /\ ~Last(log[c].requests).ok

\* An empty query and a whitespace-only query both went through to an
\* answer.
C9_Witness ==
    \E c, d \in Calls :
        /\ pc[c] = "returned" /\ args[c].query = <<>>
        /\ pc[d] = "returned" /\ args[d].query = <<SP>>

\* C10: the credential is read only after the collection has been loaded.
\* (a) With the collection missing or the store unreadable a call fails
\* with the load error, whatever the credential, and reads no credential.
\* (b) With the collection loaded and the credential absent at the
\* embedding step the call fails with the missing-credential error of that
\* step; the generation step and its credential read are not reached.
C10_ErrorPrecedence ==
    \A c \in Calls :
        /\ log[c].getenvs # <<>> =>
              /\ frame[c].db.open
              /\ log[c].steps[1] = "load_chroma_collection"
              /\ log[c].getenvs[1].at = "embed"
        /\ (StoreBroken /\ pc[c] \notin {"idle", "load"}) =>
              /\ pc[c] = "raised"
              /\ outcome[c].error \in LoadErrors
              /\ outcome[c].error = (IF chroma.readable THEN CollectionNotFound
                                                        ELSE StoreUnreadable)
              /\ log[c].getenvs = <<>> /\ log[c].requests = <<>>
        /\ (log[c].getenvs # <<>> /\ Absent(log[c].getenvs[1].key)) =>
              /\ pc[c] = "raised"
              /\ outcome[c].error = MissingCredential
              /\ log[c].steps = SubSeq(StepsOrder, 1, 2)
              /\ Len(log[c].getenvs) = 1
              /\ log[c].requests = <<>>

\* The collection loaded, the credential was absent at the embedding step,
\* and the call raised the missing-credential error there.
C10_Witness ==
    \E c \in Calls :
        /\ frame[c].db.open
        /\ pc[c] = "raised" /\ outcome[c].error = MissingCredential
        /\ Len(log[c].getenvs) = 1 /\ log[c].getenvs[1].key = None

====
